---- MODULE Spec2Model ----
(***************************************************************************)
(* Model of src/app.py: a Streamlit script holding a position ledger       *)
(* (st.session_state.portfolio) and a list of closed lots                  *)
(* (st.session_state.history).  Every script run first executes            *)
(* get_portfolio_data() (enrichment write-back, quote fetch, valuation),   *)
(* then the handler of the widget that was clicked, and a handler ends in  *)
(* st.rerun(), which runs the script once more.                            *)
(*                                                                         *)
(* Prices are integers (exact arithmetic), Beta is scaled by 10            *)
(* (10 stands for 1.0), dates are day numbers, quotients are kept as       *)
(* <<numerator, denominator>> pairs.                                       *)
(***************************************************************************)
EXTENDS Integers, Sequences, FiniteSets, TLC

VARIABLES
    portfolio,       \* st.session_state.portfolio: sequence of positions
    history,         \* st.session_state.history: sequence of closed lots
    current_prices,  \* the dict built by the last get_portfolio_data()
    df_display,      \* the valuation rows of the last get_portfolio_data()
    gateway,         \* what the quote source answered in the last fetch
    pc,              \* "idle": page shown; "rerun": a handler has called st.rerun()
    last,            \* record of the handler that has just run (history variable)
    sold,            \* ledger and history as they were before the latest sell (history variable)
    lotIds,          \* serial number of each record of history (history variable)
    nextLot,         \* number of closed lots created so far
    nAdds,           \* number of trades added so far
    reverted,        \* serial numbers of the lots undone, in order (history variable)
    added            \* shares ever added per <<account, ticker>> (history variable)

vars == <<portfolio, history, current_prices, df_display, gateway, pc,
          last, sold, lotIds, nextLot, nAdds, reverted, added>>

---------------------------------------------------------------------------
(* Bounds of the model *)

\* Ledger specification: add and sell are offered while fewer than MaxOps
\* trades have been added or sold in total.
MaxOps == 4
\* Valuation specification: add is offered while fewer than MaxValAdds trades
\* have been added.
MaxValAdds == 2
\* adds of the enrichment specification
MaxEnrichAdds == 2
\* adds of the blocking specification
MaxLiveAdds == 2
\* adds of the rows specification
MaxRowAdds == 2

---------------------------------------------------------------------------
(* Input domains *)

Tickers == {"AAPL", "MSFT"}
\* date_input("Date", date.today())
DateInputs == {1}
\* date.today() at the time of a sale
Today == 2
\* "Beta": 1.0 of a new trade, scaled by 10
BetaDefault == 10
\* "Account": "Main" of a new trade
MainAccount == "Main"
UnknownSector == "Unknown"

\* The add form (lines 148-153): Shares has min_value=1; Price, Target and
\* Stop Loss have no minimum.  A trade input is
\* <<ticker, shares, price, target, stop>>.
LedgerTrades ==
    { <<"AAPL", 2, 2, 4, 1>>, <<"AAPL", 2, 3, 4, 1>>, <<"MSFT", 2, 2, 4, 1>> }

\* Trades of the valuation specification: a zero price is accepted
ValTrades ==
    { <<"AAPL", 2, 0, 4, 1>>, <<"AAPL", 1, 2, 4, 1>>, <<"MSFT", 2, 2, 4, 1>> }

\* Trades of the enrichment specification
EnrichTrades == { <<"AAPL", 2, 2, 4, 1>>, <<"MSFT", 2, 2, 4, 1>> }

\* Trades of the rows specification: targets and stops on either side of the
\* prices, a target below the stop, a zero and a negative price
RowTrades ==
    { <<"AAPL", 2, 2, 4, 2>>, <<"AAPL", 1, 3, 2, 3>>, <<"MSFT", 2, 3, 5, 1>>,
      <<"MSFT", 2, 0, 4, 1>>, <<"MSFT", 1, -1, 4, 1>> }

\* enrich_ticker_data: ('Unknown', 1.0) when the lookup raised or returned
\* nothing, else what Yahoo returned (a beta of None is turned into 1.0)
EnrichFailed == [sector |-> UnknownSector, beta |-> BetaDefault]
EnrichResults ==
    { EnrichFailed,
      [sector |-> "Tech", beta |-> BetaDefault],
      [sector |-> "Tech", beta |-> 12],
      [sector |-> UnknownSector, beta |-> 12],
      [sector |-> "Tech", beta |-> 15] }

\* The answer of the quote source for one ticker: an exception, or a close
FetchFailed == [ok |-> FALSE, price |-> 0]
Quote(q) == [ok |-> TRUE, price |-> q]
FetchOutcomes == {FetchFailed, Quote(0), Quote(3), Quote(4)}
\* the call for a ticker never returns
NoResponse == [ok |-> FALSE, price |-> 0, returns |-> FALSE]

\* The sources as a specification sees them: R[t] the results a lookup of t
\* can give, F the answers the quote source can give for a ticker, uniform
\* whether it answers alike for every ticker of a call, outer whether
\* yf.Tickers(...) can raise.
\* Ledger specification: AAPL resolves to its profile, MSFT is unknown to
\* Yahoo; the quote source fails or quotes 4 for all tickers.
LedgerSources ==
    [ R |-> [t \in Tickers |-> IF t = "AAPL" THEN {[sector |-> "Tech", beta |-> 12]}
                                             ELSE {EnrichFailed}],
      F |-> {FetchFailed, Quote(4)}, uniform |-> TRUE, outer |-> FALSE ]
\* Valuation specification: every answer of the quote source, per ticker
ValSources ==
    [ R |-> [t \in Tickers |-> IF t = "AAPL" THEN {[sector |-> "Tech", beta |-> 12]}
                                             ELSE {EnrichFailed}],
      F |-> FetchOutcomes, uniform |-> FALSE, outer |-> TRUE ]
\* Enrichment specification: a lookup gives any result, for every ticker;
\* the quote source is down
EnrichSources ==
    [ R |-> [t \in Tickers |-> EnrichResults],
      F |-> {FetchFailed}, uniform |-> TRUE, outer |-> FALSE ]

---------------------------------------------------------------------------
(* Sequence helpers *)

RemoveAt(s, i) == [j \in 1..(Len(s) - 1) |-> IF j < i THEN s[j] ELSE s[j + 1]]

\* list.pop(i) with a 1-based index
Pop(s, i) == RemoveAt(s, i)

RECURSIVE SumSeq(_)
SumSeq(s) == IF s = <<>> THEN 0 ELSE Head(s) + SumSeq(Tail(s))

\* variant: index of the last element of s with the ticker
LastWithTicker(s, t) ==
    IF \E i \in 1..Len(s) : s[i].Ticker = t
    THEN CHOOSE i \in 1..Len(s) :
            /\ s[i].Ticker = t
            /\ \A j \in (i + 1)..Len(s) : s[j].Ticker # t
    ELSE 0

\* index of the first element of s with the ticker, 0 when there is none
FirstWithTicker(s, t) ==
    IF \E i \in 1..Len(s) : s[i].Ticker = t
    THEN CHOOSE i \in 1..Len(s) :
            /\ s[i].Ticker = t
            /\ \A j \in 1..(i - 1) : s[j].Ticker # t
    ELSE 0

\* df['Ticker'].unique().tolist(): tickers in order of first appearance
RECURSIVE UniqueTickers(_)
UniqueTickers(s) ==
    IF s = <<>> THEN <<>>
    ELSE LET rest == UniqueTickers(SubSeq(s, 1, Len(s) - 1))
             t == s[Len(s)].Ticker
         IN IF \E i \in 1..Len(rest) : rest[i] = t THEN rest ELSE Append(rest, t)

---------------------------------------------------------------------------
(* get_portfolio_data *)

\* the lookup and write-back without the test of the sector
EnrichPositionEveryRun(p, r) ==
    [p EXCEPT !.Sector = r.sector,
              !.Beta = IF p.Beta = BetaDefault /\ r.beta # BetaDefault
                       THEN r.beta ELSE p.Beta]

\* the write-back without the test that the beta is still 1.0
EnrichPositionAnyBeta(p, r) ==
    IF p.Sector = UnknownSector
    THEN [p EXCEPT !.Sector = r.sector,
                   !.Beta = IF r.beta # BetaDefault THEN r.beta ELSE p.Beta]
    ELSE p

\* lines 52-58: the write-back for one position, r the result of
\* enrich_ticker_data for its ticker
EnrichPosition(p, r) ==
    IF p.Sector = UnknownSector
    THEN [p EXCEPT !.Sector = r.sector,
                   !.Beta = IF p.Beta = BetaDefault /\ r.beta # BetaDefault
                            THEN r.beta ELSE p.Beta]
    ELSE p

\* lines 51-58: the enrichment loop, e[i] the lookup result for row i
EnrichLedger(led, e) == [i \in 1..Len(led) |-> EnrichPosition(led[i], e[i])]

\* variant: no try/except around the fetch of one ticker, so the first failure
\* ends the loop in the outer except
FetchPricesAbort(tl, outerOk, q) ==
    IF ~outerOk THEN <<>>
    ELSE LET bad == {i \in 1..Len(tl) : ~q[tl[i]].ok}
             n == IF bad = {} THEN Len(tl)
                  ELSE (CHOOSE i \in bad : \A j \in bad : i <= j) - 1
         IN [i \in 1..n |-> [t |-> tl[i], price |-> q[tl[i]].price]]

\* lines 67-77: the dict current_prices as a sequence of entries in insertion
\* order; outerOk is FALSE when yf.Tickers(...) raised, q[t] the answer for t
RECURSIVE FetchPrices(_, _, _)
FetchPrices(tl, outerOk, q) ==
    IF ~outerOk \/ tl = <<>> THEN <<>>
    ELSE LET t == tl[Len(tl)]
         IN Append(FetchPrices(SubSeq(tl, 1, Len(tl) - 1), outerOk, q),
                   [t |-> t, price |-> IF q[t].ok THEN q[t].price ELSE 0])

HasQuote(cp, t) == \E i \in 1..Len(cp) : cp[i].t = t
QuoteOf(cp, t) == cp[CHOOSE i \in 1..Len(cp) : cp[i].t = t].price

\* line 80: df['Ticker'].map(current_prices).fillna(0.0)
MappedPrice(cp, t) == IF HasQuote(cp, t) THEN QuoteOf(cp, t) ELSE 0

\* line 82: the entry price replaces a price <= 0
LastPrice(p, cp) ==
    IF MappedPrice(cp, p.Ticker) <= 0 THEN p.EntryPrice ELSE MappedPrice(cp, p.Ticker)

\* the stop-loss test first
check_alertStopFirst(lastPrice, p) ==
    IF lastPrice <= p.LossLimit THEN "StopHit"
    ELSE IF lastPrice >= p.PriceTarget THEN "TargetHit"
    ELSE "OK"

\* lines 98-101
check_alert(lastPrice, p) ==
    IF lastPrice >= p.PriceTarget THEN "TargetHit"
    ELSE IF lastPrice <= p.LossLimit THEN "StopHit"
    ELSE "OK"

MarketValue(p, cp) == LastPrice(p, cp) * p.Shares

\* the sum taken over the prices before the fallback of line 82
TotalValueBeforeFallback(led, cp) ==
    SumSeq([i \in 1..Len(led) |-> MappedPrice(cp, led[i].Ticker) * led[i].Shares])

\* line 88
TotalValue(led, cp) == SumSeq([i \in 1..Len(led) |-> MarketValue(led[i], cp)])

\* lines 84-102 for one row
ValuationRow(p, cp, total) ==
    [ Account |-> p.Account, Ticker |-> p.Ticker, EnterDate |-> p.EnterDate,
      Shares |-> p.Shares, EntryPrice |-> p.EntryPrice,
      PriceTarget |-> p.PriceTarget, LossLimit |-> p.LossLimit,
      Beta |-> p.Beta, Sector |-> p.Sector,
      LastPrice |-> LastPrice(p, cp),
      MarketValue |-> MarketValue(p, cp),
      UnrealizedPnL |-> (LastPrice(p, cp) - p.EntryPrice) * p.Shares,
      PctChange |-> <<LastPrice(p, cp) - p.EntryPrice, p.EntryPrice>>,
      NetWeight |-> IF total > 0 THEN <<MarketValue(p, cp), total>> ELSE <<0, 1>>,
      Status |-> check_alert(LastPrice(p, cp), p) ]

\* lines 79-104: the frame returned by get_portfolio_data
ComputeRows(led, cp) ==
    [i \in 1..Len(led) |-> ValuationRow(led[i], cp, TotalValue(led, cp))]

\* line 88 on the frame: df['Market Value'].sum()
total_value(df) == SumSeq([i \in 1..Len(df) |-> df[i].MarketValue])

\* line 95: (df['Beta'] * df['Net Weight']).sum() as <<numerator, denominator>>,
\* the rows' weights having one denominator; line 44: 0.0 for an empty ledger
portfolio_beta(df) ==
    IF df = <<>> THEN <<0, 1>>
    ELSE <<SumSeq([i \in 1..Len(df) |-> df[i].Beta * df[i].NetWeight[1]]),
           df[1].NetWeight[2]>>

NoGateway == [outer |-> TRUE, q |-> [t \in Tickers |-> FetchFailed]]
AllFailed == [outer |-> FALSE, q |-> [t \in Tickers |-> FetchFailed]]

ListedTickers(led) == {led[i].Ticker : i \in 1..Len(led)}

\* lines 42-104: one call of get_portfolio_data on the ledger led; e and g are
\* what the enrichment and quote sources answer during the call.  The result
\* is the ledger after the write-back, the dict of prices and the frame.
GetPortfolioData(led, e, g) ==
    IF led = <<>>
    THEN [portfolio |-> <<>>, current_prices |-> <<>>, df |-> <<>>, gateway |-> NoGateway]
    ELSE LET enriched == EnrichLedger(led, e)
             cp == FetchPrices(UniqueTickers(enriched), g.outer, g.q)
         IN [portfolio |-> enriched, current_prices |-> cp,
             df |-> ComputeRows(enriched, cp), gateway |-> g]

\* the answers the enrichment source can give during one call: one result per
\* row looked up, R[t] the results possible for ticker t
EnrichAnswers(led, R) ==
    { e \in [1..Len(led) -> UNION {R[t] : t \in Tickers} \cup {EnrichFailed}] :
        \A i \in 1..Len(led) :
            IF led[i].Sector = UnknownSector THEN e[i] \in R[led[i].Ticker]
            ELSE e[i] = EnrichFailed }

\* the answers the quote source can give during one call
GatewayAnswers(led, src) ==
    IF led = <<>> THEN {NoGateway}
    ELSE { [outer |-> TRUE, q |-> q] :
             q \in { f \in [Tickers -> src.F] :
                       /\ \A t \in Tickers \ ListedTickers(led) : f[t] = FetchFailed
                       /\ src.uniform =>
                            \A t, u \in ListedTickers(led) : f[t] = f[u] } }
         \cup (IF src.outer THEN {AllFailed} ELSE {})

---------------------------------------------------------------------------
(* History variables *)

NoLast == [op |-> "none", portfolio |-> <<>>, history |-> <<>>, ticker |-> "",
           shares |-> 0, held |-> 0, shown |-> 0, index |-> 0, lot |-> 0,
           roundtrip |-> FALSE, salePortfolio |-> <<>>, saleHistory |-> <<>>,
           saleIndex |-> 0, answers |-> <<>>]

NoSold == [lot |-> 0, portfolio |-> <<>>, history |-> <<>>, index |-> 0]

Init ==
    /\ portfolio = <<>>
    /\ history = <<>>
    /\ current_prices = <<>>
    /\ df_display = <<>>
    /\ gateway = NoGateway
    /\ pc = "idle"
    /\ last = NoLast
    /\ sold = NoSold
    /\ lotIds = <<>>
    /\ nextLot = 0
    /\ nAdds = 0
    /\ reverted = <<>>
    /\ added = [k \in {MainAccount} \X Tickers |-> 0]

---------------------------------------------------------------------------
(* The handlers *)

\* lines 158-163: tr = <<ticker, shares, price, target, stop>>, d the date
NewTrade(tr, d) ==
    [ Account |-> MainAccount, Ticker |-> tr[1], EnterDate |-> d, Shares |-> tr[2],
      EntryPrice |-> tr[3], PriceTarget |-> tr[4], LossLimit |-> tr[5],
      Beta |-> BetaDefault, Sector |-> UnknownSector ]

\* line 200: the first row of the frame with the selected ticker
CurrentHolding(df, t) == df[FirstWithTicker(df, t)]

\* variant: the input has no max_value
SellQtyNoMax(k, max_shares) == 1 <= k

\* lines 204-205: number_input(min_value=1, max_value=max_shares)
SellQtyOK(k, max_shares) == 1 <= k /\ k <= max_shares

\* variant: the profit is taken on all shares held instead of the shares sold
ClosedLotHeldPnL(item, k, exit_price) ==
    [ Account |-> item.Account, Ticker |-> item.Ticker, EnterDate |-> item.EnterDate,
      Shares |-> k, EntryPrice |-> item.EntryPrice,
      PriceTarget |-> item.PriceTarget, LossLimit |-> item.LossLimit,
      Beta |-> item.Beta, Sector |-> item.Sector,
      ExitPrice |-> exit_price, ExitDate |-> Today,
      RealizedPnL |-> (exit_price - item.EntryPrice) * item.Shares ]

\* variant: the record is the position's own dict, not a copy of it; it reads
\* as the position does after line 233 took the shares sold off it
ClosedLotNotACopy(item, k, exit_price) ==
    [ Account |-> item.Account, Ticker |-> item.Ticker, EnterDate |-> item.EnterDate,
      Shares |-> IF k = item.Shares THEN k ELSE k - k, EntryPrice |-> item.EntryPrice,
      PriceTarget |-> item.PriceTarget, LossLimit |-> item.LossLimit,
      Beta |-> item.Beta, Sector |-> item.Sector,
      ExitPrice |-> exit_price, ExitDate |-> Today,
      RealizedPnL |-> (exit_price - item.EntryPrice) * k ]

\* lines 218-222: the history record of a sale of k shares of item at exit_price
ClosedLot(item, k, exit_price) ==
    [ Account |-> item.Account, Ticker |-> item.Ticker, EnterDate |-> item.EnterDate,
      Shares |-> k, EntryPrice |-> item.EntryPrice,
      PriceTarget |-> item.PriceTarget, LossLimit |-> item.LossLimit,
      Beta |-> item.Beta, Sector |-> item.Sector,
      ExitPrice |-> exit_price, ExitDate |-> Today,
      RealizedPnL |-> (exit_price - item.EntryPrice) * k ]

\* variant: a full sale is booked like a partial one
SellLedgerNoPop(led, i, k) == [led EXCEPT ![i].Shares = @ - k]

\* variant: the position removed whatever the quantity sold
SellLedgerAlwaysPop(led, i, k) == Pop(led, i)

\* lines 228-233: the ledger after k shares of position i are sold
SellLedger(led, i, k) ==
    IF k = led[i].Shares
    THEN Pop(led, i)
    ELSE [led EXCEPT ![i].Shares = @ - k]

\* line 282: the test of the merge loop
SameHolding(port_item, lot) ==
    port_item.Ticker = lot.Ticker /\ port_item.Account = lot.Account

\* lines 281-285: index of the position the loop merges into, 0 when not found
MergeIndex(led, lot) ==
    IF \E i \in 1..Len(led) : SameHolding(led[i], lot)
    THEN CHOOSE i \in 1..Len(led) :
            /\ SameHolding(led[i], lot)
            /\ \A j \in 1..(i - 1) : ~SameHolding(led[j], lot)
    ELSE 0

\* lines 289-292: the copy of the lot without its exit fields
RevertedItem(lot) ==
    [ Account |-> lot.Account, Ticker |-> lot.Ticker, EnterDate |-> lot.EnterDate,
      Shares |-> lot.Shares, EntryPrice |-> lot.EntryPrice,
      PriceTarget |-> lot.PriceTarget, LossLimit |-> lot.LossLimit,
      Beta |-> lot.Beta, Sector |-> lot.Sector ]

\* variant: the merge loop has no break
UndoLedgerMergeAll(led, lot) ==
    IF MergeIndex(led, lot) # 0
    THEN [i \in 1..Len(led) |->
            IF SameHolding(led[i], lot)
            THEN [led[i] EXCEPT !.Shares = @ + lot.Shares] ELSE led[i]]
    ELSE Append(led, RevertedItem(lot))

\* lines 280-293: the ledger after the lot is moved back
UndoLedger(led, lot) ==
    IF MergeIndex(led, lot) # 0
    THEN [led EXCEPT ![MergeIndex(led, lot)].Shares = @ + lot.Shares]
    ELSE Append(led, RevertedItem(lot))

\* variant: history.pop() without the index
UndoHistoryPopLast(h, idx) == Pop(h, Len(h))

\* line 296: history.pop(index_to_revert), idx the 1-based position
UndoHistory(h, idx) == Pop(h, idx)

\* lines 266-267: one option of the undo selectbox,
\* "{i}: {Ticker} ({Shares}) @ {Exit Date}" with the 0-based row number i
UndoOption(h, i) == <<i - 1, h[i].Ticker, h[i].Shares, h[i].ExitDate>>

\* line 273: int(selected_undo.split(":")[0])
IndexToRevert(selected_undo) == selected_undo[1]

---------------------------------------------------------------------------
(* A click: the script runs get_portfolio_data (line 107), then the handler  *)
(* of the clicked widget, which ends in st.rerun()                           *)

\* lines 147-166: the add form is submitted
AddClick(trades, src, maxAdds) ==
    /\ pc = "idle"
    /\ nAdds + nextLot < maxAdds
    /\ \E tr \in trades, d \in DateInputs :
       \E e \in EnrichAnswers(portfolio, src.R), g \in GatewayAnswers(portfolio, src) :
        LET run == GetPortfolioData(portfolio, e, g)
        IN /\ portfolio' = Append(run.portfolio, NewTrade(tr, d))
           /\ current_prices' = run.current_prices
           /\ df_display' = run.df
           /\ gateway' = run.gateway
           /\ last' = [NoLast EXCEPT !.op = "add", !.portfolio = run.portfolio,
                                     !.history = history, !.ticker = tr[1],
                                     !.shares = tr[2]]
           /\ added' = [added EXCEPT ![<<MainAccount, tr[1]>>] = @ + tr[2]]
    /\ sold' = NoSold
    /\ nAdds' = nAdds + 1
    /\ pc' = "rerun"
    /\ UNCHANGED <<history, lotIds, nextLot, reverted>>

\* lines 197-237: the sell panel, shown when the frame is not empty
SellClick(src) ==
    /\ pc = "idle"
    /\ df_display # <<>>
    /\ nAdds + nextLot < MaxOps
    /\ \E sell_ticker \in ListedTickers(df_display) :
       \E e \in EnrichAnswers(portfolio, src.R), g \in GatewayAnswers(portfolio, src) :
        LET run == GetPortfolioData(portfolio, e, g)
            current_holding == CurrentHolding(run.df, sell_ticker)
            max_shares == current_holding.Shares
            i == FirstWithTicker(run.portfolio, sell_ticker)
            exit_price == current_holding.LastPrice
        IN \E sell_shares \in 0..(max_shares + 1) :
            /\ SellQtyOK(sell_shares, max_shares)
            /\ history' = Append(history, ClosedLot(run.portfolio[i], sell_shares, exit_price))
            /\ portfolio' = SellLedger(run.portfolio, i, sell_shares)
            /\ current_prices' = run.current_prices
            /\ df_display' = run.df
            /\ gateway' = run.gateway
            /\ last' = [NoLast EXCEPT
                          !.op = "sell", !.portfolio = run.portfolio, !.history = history,
                          !.ticker = sell_ticker, !.shares = sell_shares,
                          !.held = run.portfolio[i].Shares,
                          !.shown = CurrentHolding(df_display, sell_ticker).LastPrice,
                          !.index = i, !.lot = nextLot + 1]
            /\ sold' = [lot |-> nextLot + 1, portfolio |-> run.portfolio,
                        history |-> history, index |-> i]
    /\ lotIds' = Append(lotIds, nextLot + 1)
    /\ nextLot' = nextLot + 1
    /\ pc' = "rerun"
    /\ UNCHANGED <<reverted, nAdds, added>>

\* lines 245-299: the undo panel, shown when history is not empty
UndoClick(src) ==
    /\ pc = "idle"
    /\ history # <<>>
    /\ \E o \in 1..Len(history) :
       \E e \in EnrichAnswers(portfolio, src.R), g \in GatewayAnswers(portfolio, src) :
        LET run == GetPortfolioData(portfolio, e, g)
            selected_undo == UndoOption(history, o)
            index_to_revert == IndexToRevert(selected_undo) + 1
            item_to_revert == history[index_to_revert]
        IN /\ portfolio' = UndoLedger(run.portfolio, item_to_revert)
           /\ history' = UndoHistory(history, index_to_revert)
           /\ lotIds' = UndoHistory(lotIds, index_to_revert)
           /\ reverted' = Append(reverted, lotIds[index_to_revert])
           /\ current_prices' = run.current_prices
           /\ df_display' = run.df
           /\ gateway' = run.gateway
           /\ last' = [NoLast EXCEPT
                         !.op = "undo", !.portfolio = run.portfolio, !.history = history,
                         !.ticker = item_to_revert.Ticker,
                         !.shares = item_to_revert.Shares,
                         !.index = index_to_revert, !.lot = lotIds[index_to_revert],
                         !.roundtrip = (sold.lot = lotIds[index_to_revert]),
                         !.salePortfolio = sold.portfolio,
                         !.saleHistory = sold.history,
                         !.saleIndex = sold.index]
    /\ sold' = NoSold
    /\ pc' = "rerun"
    /\ UNCHANGED <<nextLot, nAdds, added>>

\* lines 116-117: the refresh button
RefreshClick(src) ==
    /\ pc = "idle"
    /\ \E e \in EnrichAnswers(portfolio, src.R), g \in GatewayAnswers(portfolio, src) :
        LET run == GetPortfolioData(portfolio, e, g)
        IN /\ portfolio' = run.portfolio
           /\ current_prices' = run.current_prices
           /\ df_display' = run.df
           /\ gateway' = run.gateway
           /\ last' = [NoLast EXCEPT !.op = "refresh", !.portfolio = portfolio,
                                     !.history = history, !.answers = e]
    /\ sold' = NoSold
    /\ pc' = "rerun"
    /\ UNCHANGED <<history, lotIds, nextLot, nAdds, reverted, added>>

\* the script run that st.rerun() starts: get_portfolio_data, no widget clicked
RerunStep(src) ==
    /\ pc = "rerun"
    /\ \E e \in EnrichAnswers(portfolio, src.R), g \in GatewayAnswers(portfolio, src) :
        LET run == GetPortfolioData(portfolio, e, g)
        IN /\ portfolio' = run.portfolio
           /\ current_prices' = run.current_prices
           /\ df_display' = run.df
           /\ gateway' = run.gateway
    /\ pc' = "idle"
    /\ last' = [NoLast EXCEPT !.op = "shown"]
    /\ UNCHANGED <<history, sold, lotIds, nextLot, nAdds, reverted, added>>

---------------------------------------------------------------------------
(* The ledger specification: add, sell, undo and refresh *)

ClickAdd == AddClick(LedgerTrades, LedgerSources, MaxOps)
ClickSell == SellClick(LedgerSources)
ClickUndo == UndoClick(LedgerSources)
ClickRefresh == RefreshClick(LedgerSources)
Rerun == RerunStep(LedgerSources)

Next ==
    \/ ClickAdd
    \/ ClickSell
    \/ ClickUndo
    \/ ClickRefresh
    \/ Rerun

Spec == Init /\ [][Next]_vars

---------------------------------------------------------------------------
(* The valuation specification: add and refresh with every answer of the     *)
(* quote source                                                              *)

ValAdd == AddClick(ValTrades, ValSources, MaxValAdds)
ValRefresh == RefreshClick(ValSources)
ValRerun == RerunStep(ValSources)

NextVal ==
    \/ ValAdd
    \/ ValRefresh
    \/ ValRerun

SpecVal == Init /\ [][NextVal]_vars

---------------------------------------------------------------------------
(* The enrichment specification: add and refresh with every result of the    *)
(* profile lookup                                                            *)

EnrichAdd == AddClick(EnrichTrades, EnrichSources, MaxEnrichAdds)
EnrichRefresh == RefreshClick(EnrichSources)
EnrichRerun == RerunStep(EnrichSources)

NextEnrich ==
    \/ EnrichAdd
    \/ EnrichRefresh
    \/ EnrichRerun

SpecEnrich == Init /\ [][NextEnrich]_vars

---------------------------------------------------------------------------
(* The blocking specification: the quote loop of the run that follows an add *)
(* taken one ticker at a time, with a source that may never answer           *)

\* the answers of the quote source during one call, no answer among them
LiveAnswers(led) ==
    { [outer |-> TRUE, q |-> q] :
        q \in { f \in [Tickers -> {FetchFailed, Quote(4), NoResponse}] :
                  \A t \in Tickers \ ListedTickers(led) : f[t] = FetchFailed } }

LiveAdd == AddClick(LedgerTrades, LedgerSources, MaxLiveAdds)

\* lines 51-67 of the run: the enrichment loop, then yf.Tickers(...)
LiveStart ==
    /\ pc = "rerun"
    /\ \E e \in EnrichAnswers(portfolio, LedgerSources.R), g \in LiveAnswers(portfolio) :
        /\ portfolio' = EnrichLedger(portfolio, e)
        /\ gateway' = g
    /\ current_prices' = <<>>
    /\ pc' = "fetching"
    /\ last' = [NoLast EXCEPT !.op = "shown"]
    /\ UNCHANGED <<history, df_display, sold, lotIds, nextLot, nAdds, reverted, added>>

\* lines 70-77: one turn of the loop; the call of line 72 has to return
LiveFetch ==
    /\ pc = "fetching"
    /\ Len(current_prices) < Len(UniqueTickers(portfolio))
    /\ LET tickers == UniqueTickers(portfolio)
           k == Len(current_prices) + 1
       IN /\ gateway.q[tickers[k]] # NoResponse
          /\ current_prices' = FetchPrices(SubSeq(tickers, 1, k), gateway.outer, gateway.q)
    /\ UNCHANGED <<portfolio, history, df_display, gateway, pc, last, sold, lotIds,
                   nextLot, nAdds, reverted, added>>

\* lines 80-104: the loop is over, the frame is computed and the page shown
LiveFinish ==
    /\ pc = "fetching"
    /\ Len(current_prices) = Len(UniqueTickers(portfolio))
    /\ df_display' = ComputeRows(portfolio, current_prices)
    /\ pc' = "idle"
    /\ UNCHANGED <<portfolio, history, current_prices, gateway, last, sold, lotIds,
                   nextLot, nAdds, reverted, added>>

NextLive ==
    \/ LiveAdd
    \/ LiveStart
    \/ LiveFetch
    \/ LiveFinish

\* the script runs on whenever it can
SpecLive == Init /\ [][NextLive]_vars /\ WF_vars(NextLive)

---------------------------------------------------------------------------
(* The rows specification: add and refresh of positions with targets, stops  *)
(* and prices of every kind                                                  *)

RowAdd == AddClick(RowTrades, ValSources, MaxRowAdds)
RowRefresh == RefreshClick(ValSources)
RowRerun == RerunStep(ValSources)

NextRows ==
    \/ RowAdd
    \/ RowRefresh
    \/ RowRerun

SpecRows == Init /\ [][NextRows]_vars

---------------------------------------------------------------------------
(* Properties *)

SaleDone == pc = "rerun" /\ last.op = "sell"
UndoDone == pc = "rerun" /\ last.op = "undo"
NewLot == history[Len(history)]
PositionFields == {"Account", "Ticker", "EnterDate", "Shares", "EntryPrice",
                   "PriceTarget", "LossLimit", "Beta", "Sector"}

\* C1: a partial sell of k shares (0 < k < held) reduces the shares of the
\* position sold from by exactly k, keeps that position in the ledger, and
\* appends exactly one closed lot with sharesSold = k and
\* realizedPnL = (exitPrice - entryPrice) * k, entryPrice that of the position
\* sold from.
C1_PartialSell ==
    (SaleDone /\ 0 < last.shares /\ last.shares < last.held) =>
        LET pre == last.portfolio
            i == last.index
        IN /\ Len(portfolio) = Len(pre)
           /\ portfolio[i].Shares = pre[i].Shares - last.shares
           /\ portfolio[i].Ticker = last.ticker
           /\ portfolio[i].EntryPrice = pre[i].EntryPrice
           /\ Len(history) = Len(last.history) + 1
           /\ SubSeq(history, 1, Len(last.history)) = last.history
           /\ NewLot.Shares = last.shares
           /\ NewLot.RealizedPnL = (NewLot.ExitPrice - pre[i].EntryPrice) * last.shares

C1_Witness ==
    /\ SaleDone /\ last.shares < last.held
    /\ NewLot.RealizedPnL # 0

\* C2: in every reachable state every position of the ledger has shares > 0,
\* and a sell of exactly the shares held removes the position.
C2_SharesPositive ==
    /\ \A i \in 1..Len(portfolio) : portfolio[i].Shares > 0
    /\ (SaleDone /\ last.shares = last.held) =>
            portfolio = RemoveAt(last.portfolio, last.index)

C2_Witness ==
    /\ SaleDone /\ last.shares = last.held
    /\ Len(portfolio) = Len(last.portfolio) - 1
    /\ Len(portfolio) >= 1

\* C3: a closed lot is reversed at most once: an undo removes exactly the
\* selected record from history, a removed record is never in history again
\* and no record is undone twice.
C3_UndoOnce ==
    /\ Len(lotIds) = Len(history)
    /\ \A i, j \in 1..Len(lotIds) : lotIds[i] = lotIds[j] => i = j
    /\ \A i \in 1..Len(lotIds), j \in 1..Len(reverted) : lotIds[i] # reverted[j]
    /\ \A i, j \in 1..Len(reverted) : reverted[i] = reverted[j] => i = j
    /\ UndoDone =>
        /\ history = RemoveAt(last.history, last.index)
        /\ reverted[Len(reverted)] = last.lot

C3_Witness ==
    /\ UndoDone
    /\ Len(last.history) = 2
    /\ last.index = 1
    /\ history = <<last.history[2]>>

\* C4: a sell followed immediately by the undo of the lot it created is a
\* round trip: the position sold from again holds its pre-sale share count
\* at its pre-sale entry price, and history has its pre-sale contents.
\* (Read in the code's favour: a position of the same holding at the pre-sale
\* entry price with at least the pre-sale share count is accepted, so a merge
\* into another lot bought at the same price passes.)
C4_RoundTrip ==
    (UndoDone /\ last.roundtrip) =>
        LET src == last.salePortfolio[last.saleIndex]
        IN /\ history = last.saleHistory
           /\ \E j \in 1..Len(portfolio) :
                /\ portfolio[j].Account = src.Account
                /\ portfolio[j].Ticker = src.Ticker
                /\ portfolio[j].Shares >= src.Shares
                /\ portfolio[j].EntryPrice = src.EntryPrice

\* C5: no sell executes with a quantity that is not positive or exceeds the
\* shares held by the position it is taken from: every closed lot is created
\* with 0 < sharesSold <= shares held by the source position at that moment.
C5_SellWithinHolding ==
    /\ \A i \in 1..Len(history) : history[i].Shares > 0
    /\ SaleDone =>
        /\ 0 < last.shares
        /\ last.shares <= last.portfolio[last.index].Shares
        /\ NewLot.Shares = last.shares
        /\ last.portfolio[last.index].Ticker = NewLot.Ticker

C5_Witness ==
    /\ SaleDone
    /\ last.portfolio[last.index].Shares = 2
    /\ NewLot.Shares = 2

\* C6: the exit price recorded on a closed lot is the last price of the
\* valuation the user was shown when issuing the sell.
C6_ExitPriceIsShownPrice ==
    SaleDone => NewLot.ExitPrice = last.shown

Usable(cp, t) == HasQuote(cp, t) /\ QuoteOf(cp, t) > 0

\* C9: for every row of a refresh, lastPrice is the fetched quote when one is
\* present and > 0 and the entry price otherwise; a position without a usable
\* quote has unrealizedPnL = 0 and is never valued at price 0.
C9_FallbackNeverZero ==
    \A i \in 1..Len(df_display) :
        LET row == df_display[i]
        IN /\ row.LastPrice = IF Usable(current_prices, row.Ticker)
                              THEN QuoteOf(current_prices, row.Ticker)
                              ELSE row.EntryPrice
           /\ ~Usable(current_prices, row.Ticker) =>
                /\ row.UnrealizedPnL = 0
                /\ row.LastPrice # 0

\* the part of C9 that is the fallback policy itself
FallbackPolicy ==
    \A i \in 1..Len(df_display) :
        LET row == df_display[i]
        IN /\ row.LastPrice = IF Usable(current_prices, row.Ticker)
                              THEN QuoteOf(current_prices, row.Ticker)
                              ELSE row.EntryPrice
           /\ ~Usable(current_prices, row.Ticker) => row.UnrealizedPnL = 0

ValuedFields == {"LastPrice", "MarketValue", "UnrealizedPnL", "PctChange", "Status"}

\* C10: a failed quote fetch for ticker X is absorbed: the refresh produces a
\* row for every position, and every row of another ticker has the lastPrice,
\* marketValue, unrealizedPnL, pctChange and status it has in a refresh where
\* the fetch for X succeeded and the other answers are the same.
C10_FailureIsLocal ==
    /\ pc = "idle" => Len(df_display) = Len(portfolio)
    /\ gateway.outer =>
        \A X \in ListedTickers(df_display) :
            ~gateway.q[X].ok =>
                \A alt \in FetchOutcomes \ {FetchFailed} :
                    LET cp2 == FetchPrices(UniqueTickers(df_display), TRUE,
                                           [gateway.q EXCEPT ![X] = alt])
                        rows2 == ComputeRows(df_display, cp2)
                    IN \A i \in 1..Len(df_display) :
                        df_display[i].Ticker # X =>
                            \A f \in ValuedFields : df_display[i][f] = rows2[i][f]

C10_Witness ==
    /\ pc = "idle"
    /\ gateway.outer
    /\ \E i, j \in 1..Len(df_display) :
        /\ df_display[i].Ticker = "AAPL" /\ ~gateway.q["AAPL"].ok
        /\ df_display[j].Ticker = "MSFT" /\ gateway.q["MSFT"] = Quote(4)
        /\ df_display[j].LastPrice = 4
        /\ df_display[i].LastPrice = df_display[i].EntryPrice

\* C11: the status of a row is TargetHit exactly when lastPrice >= priceTarget
\* (also when lastPrice <= lossLimit holds as well), StopHit exactly when
\* lastPrice < priceTarget and lastPrice <= lossLimit, and OK otherwise; a
\* lastPrice equal to the target or to the stop triggers.
C11_StatusPrecedence ==
    \A i \in 1..Len(df_display) :
        LET row == df_display[i]
        IN /\ row.Status \in {"TargetHit", "StopHit", "OK"}
           /\ row.Status = "TargetHit" <=> row.LastPrice >= row.PriceTarget
           /\ row.Status = "StopHit" <=>
                 (row.LastPrice < row.PriceTarget /\ row.LastPrice <= row.LossLimit)
           /\ row.Status = "OK" <=>
                 (row.LastPrice < row.PriceTarget /\ row.LastPrice > row.LossLimit)

\* a row at its stop and above its target, one exactly at its stop, one
\* exactly at its target
C11_Witness ==
    /\ \E i \in 1..Len(df_display) :
          /\ df_display[i].LastPrice >= df_display[i].PriceTarget
          /\ df_display[i].LastPrice = df_display[i].LossLimit
          /\ df_display[i].Status = "TargetHit"
    /\ \E i \in 1..Len(df_display) :
          /\ df_display[i].LastPrice = df_display[i].LossLimit
          /\ df_display[i].Status = "StopHit"

\* C12: every live position has entryPrice > 0, so the pctChange of a row
\* never divides by zero; no add puts an entryPrice <= 0 into the ledger.
C12_EntryPricePositive ==
    /\ \A i \in 1..Len(portfolio) : portfolio[i].EntryPrice > 0
    /\ \A i \in 1..Len(df_display) : df_display[i].PctChange[2] # 0

RefreshDone == pc = "rerun" /\ last.op = "refresh"

\* C13 as claimed: computing the valuation never mutates the ledger; after a
\* call the list of positions and every field of every position, beta and
\* sector included, are what they were before it.
C13_ValuationPure == RefreshDone => portfolio = last.portfolio

\* C13 amended: computing the valuation never adds, removes or reorders
\* positions and changes no field other than sector and beta, and those only
\* of positions whose sector was Unknown before the call.
C13_ValuationWritesEnrichmentOnly ==
    RefreshDone =>
        /\ Len(portfolio) = Len(last.portfolio)
        /\ \A i \in 1..Len(portfolio) :
              /\ \A f \in PositionFields \ {"Sector", "Beta"} :
                    portfolio[i][f] = last.portfolio[i][f]
              /\ last.portfolio[i].Sector # UnknownSector =>
                    portfolio[i] = last.portfolio[i]

\* a refresh wrote a sector into one position and left a resolved one alone
C13_Witness ==
    /\ RefreshDone
    /\ \E i, j \in 1..Len(portfolio) :
          /\ last.portfolio[i].Sector = UnknownSector
          /\ portfolio[i].Sector # UnknownSector
          /\ last.portfolio[j].Sector # UnknownSector

\* C14: a lookup is made only for positions whose sector is Unknown; it
\* changes the beta only when the beta is still 1.0 and the result is not
\* 1.0; a failed lookup leaves the sector Unknown and the beta unchanged and
\* the refresh completes; so a beta other than 1.0 is never changed and a
\* position with a resolved sector is never looked up again.
C14_EnrichmentGuards ==
    RefreshDone =>
        /\ Len(df_display) = Len(portfolio)
        /\ Len(portfolio) = Len(last.portfolio)
        /\ \A i \in 1..Len(portfolio) :
              LET before == last.portfolio[i]
                  after == portfolio[i]
                  r == last.answers[i]
              IN /\ before.Sector # UnknownSector => after = before
                 /\ after.Beta # before.Beta =>
                       /\ before.Sector = UnknownSector
                       /\ before.Beta = BetaDefault
                       /\ r.beta # BetaDefault
                       /\ after.Beta = r.beta
                 /\ before.Beta # BetaDefault => after.Beta = before.Beta
                 /\ (before.Sector = UnknownSector /\ r = EnrichFailed) =>
                       /\ after.Sector = UnknownSector
                       /\ after.Beta = before.Beta

\* one refresh: a failed lookup, a lookup that returned another beta for a
\* position whose beta was set before, and a lookup that set the beta
C14_Witness ==
    /\ RefreshDone
    /\ \E i \in 1..Len(portfolio) :
          /\ last.portfolio[i].Sector = UnknownSector
          /\ last.portfolio[i].Beta = 12
          /\ last.answers[i].beta = 15
          /\ portfolio[i].Beta = 12
    /\ \E i \in 1..Len(portfolio) :
          /\ last.portfolio[i].Sector = UnknownSector
          /\ last.answers[i] = EnrichFailed

\* C15: totalValue is the sum of the rows' marketValue; when totalValue > 0
\* each netWeight is marketValue / totalValue and the netWeights sum to 1;
\* when totalValue <= 0 every netWeight is 0 and portfolioBeta is 0.
C15_WeightsSumToOne ==
    LET total == total_value(df_display)
        n == Len(df_display)
    IN /\ \A i \in 1..n : df_display[i].MarketValue =
                               df_display[i].LastPrice * df_display[i].Shares
       /\ total > 0 =>
             /\ \A i \in 1..n :
                   df_display[i].NetWeight = <<df_display[i].MarketValue, total>>
             /\ SumSeq([i \in 1..n |-> df_display[i].NetWeight[1]]) = total
             /\ portfolio_beta(df_display)[2] = total
       /\ total <= 0 =>
             /\ \A i \in 1..n : /\ df_display[i].NetWeight[1] = 0
                                 /\ df_display[i].NetWeight[2] # 0
             /\ portfolio_beta(df_display)[1] = 0

\* a negative total over two rows, one of them with a market value
C15_Witness ==
    /\ Len(df_display) = 2
    /\ total_value(df_display) < 0
    /\ \E i \in 1..2 : df_display[i].MarketValue # 0
    /\ \A i \in 1..2 : df_display[i].NetWeight[1] = 0

\* C16: a refresh always terminates, also when a quote source never
\* responds: it goes on with the quotes it has, applies the fallback to the
\* rest, and the ledger is available again for sell and undo.
C16_RefreshTerminates == (pc = "fetching") ~> (pc = "idle")

\* shares of the holding <<account, ticker>> in a list of positions or lots
SharesOf(s, k) ==
    SumSeq([i \in 1..Len(s) |->
              IF <<s[i].Account, s[i].Ticker>> = k THEN s[i].Shares ELSE 0])

\* C17: shares are conserved: for every (account, ticker) the shares of the
\* live positions plus the shares sold of the closed lots in history equal
\* the shares ever added for it; sell and undo only move shares between the
\* ledger and history.
C17_SharesConserved ==
    \A k \in DOMAIN added : SharesOf(portfolio, k) + SharesOf(history, k) = added[k]

\* after an undo, a holding partly in the ledger and partly in history
C17_Witness ==
    /\ UndoDone
    /\ \E k \in DOMAIN added :
          /\ SharesOf(portfolio, k) > 0
          /\ SharesOf(history, k) > 0
          /\ SharesOf(portfolio, k) + SharesOf(history, k) = added[k]

\* C18: a sell changes exactly one position and appends exactly one history
\* record: the position changed is the first in ledger order with the
\* selected ticker, the one whose share count bounded the quantity and whose
\* entry price enters realizedPnL; every other position (later lots of the
\* same ticker included), the order of the remaining positions and every
\* earlier history record are unchanged.
C18_SellFrame ==
    SaleDone =>
        LET pre == last.portfolio
            i == last.index
            shown == CurrentHolding(df_display, last.ticker)
        IN /\ i \in 1..Len(pre)
           /\ pre[i].Ticker = last.ticker
           /\ \A j \in 1..(i - 1) : pre[j].Ticker # last.ticker
           /\ shown.Shares = pre[i].Shares
           /\ shown.EntryPrice = pre[i].EntryPrice
           /\ last.shares <= pre[i].Shares
           /\ NewLot.EntryPrice = pre[i].EntryPrice
           /\ NewLot.RealizedPnL = (shown.LastPrice - pre[i].EntryPrice) * last.shares
           /\ IF last.shares = pre[i].Shares
              THEN portfolio = RemoveAt(pre, i)
              ELSE portfolio = [pre EXCEPT ![i].Shares = @ - last.shares]
           /\ history = Append(last.history, NewLot)

\* a sell from the first of two lots of one ticker, with a record in history
C18_Witness ==
    /\ SaleDone
    /\ last.index = 1
    /\ Len(last.portfolio) = 2
    /\ last.portfolio[2].Ticker = last.ticker
    /\ last.portfolio[2].EntryPrice # last.portfolio[1].EntryPrice
    /\ portfolio[Len(portfolio)] = last.portfolio[2]
    /\ Len(history) = 2

\* every record of history satisfies the profit equation with sharesSold > 0
LotsConsistent ==
    \A i \in 1..Len(history) :
        /\ history[i].Shares > 0
        /\ history[i].RealizedPnL =
              (history[i].ExitPrice - history[i].EntryPrice) * history[i].Shares

\* a step leaves every record that stays in history as it was
LotsKept ==
    \A i \in 1..Len(history), j \in 1..Len(history') :
        lotIds[i] = lotIds'[j] => history'[j] = history[i]

\* C19: a closed lot is an independent snapshot: once appended, none of its
\* fields is changed by a later add, sell, undo or refresh, so every record
\* in history satisfies realizedPnL = (exitPrice - entryPrice) * sharesSold
\* with sharesSold > 0.
C19_ClosedLotSnapshot == []LotsConsistent /\ [][LotsKept]_vars

\* a record that stayed in history while its position was sold from again
\* and that second lot was undone into the position
C19_Witness ==
    /\ UndoDone
    /\ Len(last.history) = 2
    /\ last.index = 2
    /\ history = <<last.history[1]>>
    /\ history[1].RealizedPnL # 0
    /\ last.ticker = history[1].Ticker
    /\ MergeIndex(last.portfolio, last.history[2]) # 0

====
